---- MODULE Spec2Model ----
(***************************************************************************)
(* web-agent: the iterative command loop of CommandExecutor                *)
(* (src/executor/command_executor.py), the controller calls it makes       *)
(* (src/controller/marionette_controller.py) and the oracle adapter        *)
(* CommandParser.get_next_step (src/parser/command_parser.py).             *)
(*                                                                         *)
(* Python dicts are records; d.get(k, default) is Get(d, k, default).      *)
(* A message text is modelled by the set of phrases it contains, among the *)
(* phrases the program tests for or that tell two outcomes apart.          *)
(***************************************************************************)
EXTENDS Integers, Sequences, FiniteSets, TLC

VARIABLES
    pc,                   \* position in execute_command_iteratively
    connected,            \* CommandExecutor.connected
    flaky_from,           \* first iteration of the stretch in which steps may fail
    i,                    \* loop index of `for i in range(max_steps)`
    results,              \* the transcript (list of outcome dicts)
    consecutive_failures, \* local of execute_command_iteratively
    llm_response,         \* the oracle's answer in this iteration, or None
    next_step,            \* the step returned by the parser in this iteration
    result,               \* outcome of _execute_step(next_step) in this iteration
    calls,                \* controller calls made by that _execute_step
    recovery,             \* the _attempt_recovery call of this iteration, or None
    recoveries,           \* _attempt_recovery calls in this iteration
    snapshots,            \* get_dom_context calls in this run
    oracle_calls,         \* get_next_step calls in this run
    executed,             \* _execute_step(next_step) calls made by the loop in this run
    ret,                  \* value returned by the last call of the executor, or None
    fn_args,              \* arguments of a controller method called on its own, or None
    fn_ret,               \* what that method returned, or None
    extracts,             \* /extract requests served since the executor was last called
    dom_context,          \* the snapshot of this iteration and whether its script raised, or None
    current_url,          \* the URL read in this iteration, None when get_url raised
    sessions,             \* driver sessions started by the controller of the executor
    called                \* the method of the executor called last, or None

vars == <<pc, connected, flaky_from, i, results, consecutive_failures, llm_response, next_step,
          result, calls, recovery, recoveries, snapshots, oracle_calls, executed, ret,
          fn_args, fn_ret, extracts, dom_context, current_url,
                   sessions, called>>

----------------------------------------------------------------------------
(* Bounds of the model *)

\* Steps and snapshots may fail only in FlakySteps consecutive iterations of a run.
FlakySteps == 3

\* OCR detections in one screenshot.
MaxBoxes == 3

\* Elements of a page that match the selector list of get_dom_context.
MaxPage == 3

\* GET /extract requests served between two calls of the executor.
MaxRequests == 1

\* Elements one input selector of search matches.
MaxMatches == 2

----------------------------------------------------------------------------
(* Python values *)

\* None where a string is expected, and None where a dict is expected.
None == "None"
NoDict == [none |-> TRUE]
EmptyDict == [k \in {} |-> None]
Success == "success"
Error == "error"

Get(d, k, default) == IF k \in DOMAIN d THEN d[k] ELSE default

\* Truth value of an optional dict: None and {} are false.
Truthy(v) == v # NoDict /\ v # EmptyDict

\* str.strip() and str.upper() on the strings of the model.
Strip(s) == IF s = " " THEN "" ELSE s

Upper(s) == IF s = "n/a" THEN "N/A" ELSE s

\* `phrase in msg`
Contains(msg, phrase) == phrase \in msg

NotFound == "not found"
SearchBox == "search box"
TaskCompleted == "Task completed"

Outcome(status, phrases) == [status |-> status, message |-> phrases]

\* What a method did: the value it returned and the calls it made.
Done(r, cs) == [result |-> r, calls |-> cs]

\* A call that ends with an exception in place of a returned value.
Exception == "exception"
Raise(exc) == [status |-> Exception, exception |-> exc]

\* A number of seconds is a whole number, a number beyond what time.sleep
\* takes, or a text int() does not take.
Seconds(n) == [n |-> n]
HugeSeconds == [huge |-> TRUE]
SoonSeconds == [s |-> "soon"]

----------------------------------------------------------------------------
(* EnhancedMarionetteController: each method maps what the browser did to   *)
(* the outcome dict the method returns.                                     *)

\* click(selector): "clicked", "absent" (find_element gave None), "raised".
ClickResponses == {"clicked", "absent", "raised"}

controller_click(resp) ==
    CASE resp = "absent"  -> Outcome(Error, {NotFound})
      [] resp = "clicked" -> Outcome(Success, {})
      [] OTHER            -> Outcome(Error, {})

\* click_by_coordinates(x, y): elementFromPoint hit, missed, or the script raised.
PointResponses == {"clicked", "nothing", "raised"}

click_by_coordinates(resp) ==
    CASE resp = "clicked" -> Outcome(Success, {})
      [] resp = "nothing" -> Outcome(Error, {})
      [] OTHER            -> Outcome(Error, {})

\* A text of the OCR is the sequence of its characters.
LowerChar(c) ==
    CASE c = "A" -> "a"
      [] c = "C" -> "c"
      [] c = "B" -> "b"
      [] c = "D" -> "d"
      [] c = "O" -> "o"
      [] c = "R" -> "r"
      [] c = "T" -> "t"
      [] OTHER   -> c

\* str.lower()
LowerChars(cs) == [k \in 1..Len(cs) |-> LowerChar(cs[k])]

\* str.strip()
RECURSIVE StripChars(_)
StripChars(cs) ==
    IF cs = <<>> THEN cs
    ELSE IF Head(cs) = " " THEN StripChars(Tail(cs))
    ELSE IF cs[Len(cs)] = " " THEN StripChars(SubSeq(cs, 1, Len(cs) - 1))
    ELSE cs

\* `t in s`
IsSubstring(t, s) ==
    \E k \in 0..(Len(s) - Len(t)) : SubSeq(s, k + 1, k + Len(t)) = t

\* A value of data['conf'] is a whole number, or a text int() does not take.
ConfNumber(n) == [n |-> n]
ConfJunk == [s |-> "junk"]

\* lines 500-503: int(data['conf'][i]), 0 when it raises
int_conf(c) == IF "n" \in DOMAIN c THEN c.n ELSE 0

\* qualifies accepting a confidence equal to the threshold.
qualifies_at_threshold(text, conf, target_text, confidence_threshold) ==
    /\ conf >= confidence_threshold
    /\ IsSubstring(LowerChars(target_text), LowerChars(text))

\* line 505
qualifies(text, conf, target_text, confidence_threshold) ==
    /\ conf > confidence_threshold
    /\ IsSubstring(LowerChars(target_text), LowerChars(text))

\* box_centre without the halving.
box_centre_far_corner(left, top, width, height) ==
    [x |-> left + width, y |-> top + height]

\* lines 506-514
box_centre(left, top, width, height) ==
    [x |-> left + (width \div 2), y |-> top + (height \div 2)]

\* lines 497-516: the loop over the boxes, from box k on
RECURSIVE ocr_scan(_, _, _, _)
ocr_scan(data, k, target_text, confidence_threshold) ==
    IF k > Len(data) THEN EmptyDict
    ELSE LET text == StripChars(data[k].text)
             conf == int_conf(data[k].conf)
         IN IF qualifies(text, conf, target_text, confidence_threshold)
            THEN box_centre(data[k].left, data[k].top, data[k].width, data[k].height)
            ELSE ocr_scan(data, k + 1, target_text, confidence_threshold)

\* lines 471-519; data is what the OCR reads in the screenshot, one record
\* per box, and {} is returned when the screenshot or the OCR raises
get_target_coordinates_ocr(args) ==
    IF args.raises THEN EmptyDict
    ELSE ocr_scan(args.data, 1, args.target_text, args.confidence_threshold)

Box(text, conf, left, top, width, height) ==
    [text |-> text, conf |-> conf, left |-> left, top |-> top,
     width |-> width, height |-> height]

\* the characters of the texts a step carries
Chars(s) ==
    CASE s = ""            -> <<>>
      [] s = "Add to cart" -> <<"A", "d", "d", " ", "t", "o", " ", "c", "a", "r", "t">>
      [] s = "#name"       -> <<"#", "n", "a", "m", "e">>
      [] s = "#name, Bob"  -> <<"#", "n", "a", "m", "e", ",", " ", "B", "o", "b">>
      [] OTHER             -> <<"#">>

\* confidence_threshold: int = 60
default_confidence_threshold == 60

\* What the OCR reads on the page: nothing; the button of end-to-end
\* scenario 2; the button twice, first with too low a confidence and then in
\* a box of odd width and height.
BlankShot == <<>>

AddToCartShot ==
    <<Box(Chars("Add to cart"), ConfNumber(75), 100, 200, 50, 20)>>

OddShot ==
    <<Box(<<"A", "D", "D", " ", "T", "O", " ", "C", "A", "R", "T", " ">>,
          ConfNumber(60), 1, 1, 2, 2),
      Box(<<" ">> \o Chars("Add to cart"), ConfNumber(90), 10, 20, 5, 7)>>

\* a screenshot, or the screenshot or the OCR raising
Shot(data, raises) == [data |-> data, raises |-> raises]

OcrShots ==
    {Shot(BlankShot, FALSE), Shot(AddToCartShot, FALSE), Shot(OddShot, FALSE),
     Shot(AddToCartShot, TRUE)}

\* get_target_coordinates_ocr(text) with the default threshold on a shot
locate(target_text, shot) ==
    get_target_coordinates_ocr([target_text |-> Chars(target_text),
                                confidence_threshold |-> default_confidence_threshold,
                                data |-> shot.data, raises |-> shot.raises])

\* get_target_coordinates_ocr(text): a coordinate dict, or {} on a miss or an exception.
OcrResponses == {locate("Add to cart", shot) : shot \in OcrShots}

\* navigate(url)
NavigateResponses == {"loaded", "timeout", "raised"}

controller_navigate(resp) ==
    CASE resp = "loaded"  -> Outcome(Success, {})
      [] resp = "timeout" -> Outcome(Error, {})
      [] OTHER            -> Outcome(Error, {})

\* search(query): performed, no search input on the page, or a later failure.
SearchResponses == {"searched", "no_search_box", "failed"}

controller_search(resp) ==
    CASE resp = "no_search_box" -> Outcome(Error, {SearchBox})
      [] resp = "searched"      -> Outcome(Success, {})
      [] OTHER                  -> Outcome(Error, {})

\* search(query) step by step.  The page is described by what each driver
\* call of the method meets: what each input selector matches, whether the
\* query can be typed, whether the Enter key raises, and for each button
\* selector whether it matches nothing, matches a button that is clicked,
\* matches a button whose click raises, or makes find_elements raise.
button_selectors ==
    <<"button[type='submit']", "input[type='submit']", ".search-button",
      "[aria-label*='search' i]", "button[name='btnK']", "#search-button",
      "form button", "button:contains('Search')">>

ButtonAnswers == {"none", "clicked", "click_raised", "find_raised"}

SendReturn(ok) == [op |-> "send_keys_return", ok |-> ok]
FindButtons(k, ok) == [op |-> "find_elements", selector |-> k, ok |-> ok]
ClickButton(k, ok) == [op |-> "click", selector |-> k, ok |-> ok]
FormSubmit(ok) == [op |-> "form_submit", ok |-> ok]

\* lines 223-232: the loop over the button selectors from selector k on;
\* what a selector raises is caught inside the loop and the loop goes on
RECURSIVE probe_buttons(_, _, _)
probe_buttons(buttons, k, cs) ==
    IF k > Len(button_selectors) THEN cs
    ELSE CASE buttons[k] = "none" ->
                probe_buttons(buttons, k + 1, Append(cs, FindButtons(k, FALSE)))
           [] buttons[k] = "find_raised" ->
                probe_buttons(buttons, k + 1, Append(cs, FindButtons(k, FALSE)))
           [] buttons[k] = "click_raised" ->
                probe_buttons(buttons, k + 1,
                              cs \o <<FindButtons(k, TRUE), ClickButton(k, FALSE)>>)
           [] OTHER ->
                cs \o <<FindButtons(k, TRUE), ClickButton(k, TRUE)>>

\* lines 203-241: nothing in the try block of line 210 raises past the
\* inner handler of line 231, so the handler of line 233 with the scripted
\* form submit is never entered
submit_search(args) ==
    IF ~args.enter_raises
    THEN <<SendReturn(TRUE)>>
    ELSE probe_buttons(args.buttons, 1, <<SendReturn(FALSE)>>)

\* lines 120-134
search_selectors ==
    <<"input[name='q']", "input[type='search']", "input[placeholder*='search' i]",
      "input[aria-label*='search' i]", ".search-input", "textarea[name='q']",
      "#search", "[name='s']", "[name='search']", "input[name='query']",
      "[role='search'] input[type='text']",
      "[role='search'] input:not([type='submit'])", "form input[type='text']">>

\* an element of the page with its type attribute; reading the attribute of
\* a stale element raises
Element(type) == [type |-> type, stale |-> FALSE]
StaleElement == [type |-> None, stale |-> TRUE]

\* what find_elements answers for one input selector
Matches(elements) == [raises |-> FALSE, elements |-> elements]
FindRaises == [raises |-> TRUE, elements |-> <<>>]

FindInputs(k, ok) == [op |-> "find_elements", selector |-> k, ok |-> ok]

\* first_input without the test on the type: the first element is taken,
\* a submit input or a button included.
first_input_any_type(elements, j) ==
    IF j > Len(elements) THEN 0
    ELSE IF elements[j].stale THEN -1
    ELSE j

\* lines 146-152: the position of the first element whose type is neither
\* submit nor button, 0 when there is none, -1 when reading a type raised
RECURSIVE first_input(_, _)
first_input(elements, j) ==
    IF j > Len(elements) THEN 0
    ELSE IF elements[j].stale THEN -1
    ELSE IF elements[j].type # "submit" /\ elements[j].type # "button" THEN j
    ELSE first_input(elements, j + 1)

NoInput(probes) == [search_input |-> NoDict, probes |-> probes]

\* lines 140-158: the loop over the input selectors from selector k on; what
\* a selector raises is caught inside the loop and the loop goes on
RECURSIVE probe_inputs(_, _, _)
probe_inputs(page, k, probes) ==
    IF k > Len(search_selectors) THEN NoInput(probes)
    ELSE IF page[k].raises
    THEN probe_inputs(page, k + 1, Append(probes, FindInputs(k, FALSE)))
    ELSE LET j == first_input(page[k].elements, 1) IN
         IF j > 0
         THEN [search_input |-> [used_selector |-> k, element |-> j,
                                 type |-> page[k].elements[j].type],
               probes |-> Append(probes, FindInputs(k, TRUE))]
         ELSE probe_inputs(page, k + 1, Append(probes, FindInputs(k, j = 0)))

SendKeys(ok) == [op |-> "send_keys", ok |-> ok]
SetValue(ok) == [op |-> "set_value", ok |-> ok]

\* lines 189-201: the query is typed, or set by script when typing raised
enter_text(typing) ==
    CASE typing = "typed"    -> <<SendKeys(TRUE)>>
      [] typing = "js_typed" -> <<SendKeys(FALSE), SetValue(TRUE)>>
      [] OTHER               -> <<SendKeys(FALSE), SetValue(FALSE)>>

Searched(r, found, typing, cs) ==
    [result |-> r, search_input |-> found.search_input, probes |-> found.probes,
     typing |-> typing, calls |-> cs]

\* lines 112-253
search(args) ==
    IF args.url_raises
    THEN Searched(Outcome(Error, {}), NoInput(<<>>), <<>>, <<>>)
    ELSE LET found == probe_inputs(args.page, 1, <<>>) IN
         IF found.search_input = NoDict
         THEN Searched(Outcome(Error, {SearchBox}), found, <<>>, <<>>)
         ELSE IF args.typing = "failed"
         THEN Searched(Outcome(Error, {}), found, enter_text(args.typing), <<>>)
         ELSE Searched(Outcome(Success, {}), found, enter_text(args.typing),
                       submit_search(args))

\* input_text(selector, text)
InputResponses == {"typed", "absent", "raised"}

input_text(resp) ==
    CASE resp = "absent" -> Outcome(Error, {NotFound})
      [] resp = "typed"  -> Outcome(Success, {})
      [] OTHER           -> Outcome(Error, {})

\* extract(selector)
ExtractResponses == {"text", "absent", "raised"}

controller_extract(resp) ==
    CASE resp = "absent" -> Outcome(Error, {NotFound})
      [] resp = "text"   -> [status |-> Success, message |-> {}, data |-> "text"]
      [] OTHER           -> Outcome(Error, {})

\* get_dom_context(max_elements): the script of lines 365-420.  An element of
\* the page is its tag and whether the filter of lines 373-382 keeps it; the
\* summary returned for it is its tag and its place in document order.
PageElement(tag, shown) == [tag |-> tag, shown |-> shown]

Summary(tag, index) == [tag |-> tag, index |-> index]

\* lines 387-392
priority(tag) ==
    IF tag = "input" \/ tag = "button" THEN 1
    ELSE IF tag = "a" THEN 2
    ELSE 3

\* lines 373-382, on the elements of the page from place k on
RECURSIVE visibleElements(_, _)
visibleElements(page, k) ==
    IF k > Len(page) THEN <<>>
    ELSE IF page[k].shown
         THEN <<Summary(page[k].tag, k)>> \o visibleElements(page, k + 1)
         ELSE visibleElements(page, k + 1)

\* lines 386-394: Array.prototype.sort is stable, so the elements of equal
\* priority keep their order
sort_by_priority(elements) ==
    SelectSeq(elements, LAMBDA e : priority(e.tag) = 1)
    \o SelectSeq(elements, LAMBDA e : priority(e.tag) = 2)
    \o SelectSeq(elements, LAMBDA e : priority(e.tag) = 3)

\* slice(0, n) for n >= 0
slice(elements, n) ==
    SubSeq(elements, 1, IF n < Len(elements) THEN n ELSE Len(elements))

\* line 419: arguments[0] || 200
default_max_elements == 200

script_max_elements(max_elements) ==
    IF max_elements = 0 THEN default_max_elements ELSE max_elements

\* lines 358-425; [] when execute_script raises
get_dom_context(args) ==
    IF args.raises THEN <<>>
    ELSE slice(sort_by_priority(visibleElements(args.page, 1)),
               script_max_elements(args.max_elements))

----------------------------------------------------------------------------
(* CommandParser.get_next_step                                              *)

\* The fields the three regular expressions find in the answer (a field is
\* missing when its expression does not match), or no answer at all when the
\* API call raises.
Letters == {"A", "B", "C", "D", "E", "F"}
ParamTexts == {"", "Add to cart", "#name, Bob"}
DomTexts == {"N/A", "#submit", "#submit (the button)"}

LlmResponses ==
    {NoDict} \cup [action : Letters, param : ParamTexts, dom : DomTexts]
             \cup [action : Letters, param : ParamTexts]
             \cup [action : Letters, dom : DomTexts]
             \cup [param : ParamTexts, dom : DomTexts]

action_map(letter) ==
    CASE letter = "A" -> "navigate"
      [] letter = "B" -> "search"
      [] letter = "C" -> "click"
      [] letter = "D" -> "input"
      [] letter = "E" -> "wait"
      [] letter = "F" -> "complete"
      [] OTHER        -> None

\* re.sub(r'\s*\(.*\)$', '', dom) on a stripped DOM field
StripCommentary(dom) == IF dom = "#submit (the button)" THEN "#submit" ELSE dom

\* A URL text is its scheme prefix ("" when it has none) and the rest.
Url(scheme, rest) == [scheme |-> scheme, rest |-> rest]

\* 'https://' + param_value, unless it is empty or has a scheme already
\* (no parameter text of the model has one)
WithScheme(param_value) ==
    IF param_value = "" THEN Url("", "") ELSE Url("https://", param_value)

\* int(re.search(r'\d+', param_value).group(0)), 3 when there is no number
\* (no parameter text of the model has one)
FirstNumber(param_value) == Seconds(3)

\* param_value.split(',', 1), each part stripped
SplitComma(param_value) ==
    IF param_value = "#name, Bob" THEN <<"#name", "Bob">> ELSE <<param_value>>

params_dict(action, param_value) ==
    CASE action = "navigate" -> [url |-> WithScheme(param_value)]
      [] action = "search"   -> [query |-> param_value]
      [] action = "click"    -> [selector |-> param_value]
      [] action = "input"    ->
           LET parts == SplitComma(param_value)
           IN IF Len(parts) >= 2
              THEN [selector |-> parts[1], text |-> parts[2]]
              ELSE [selector |-> "input field", text |-> param_value]
      [] action = "wait"     -> [seconds |-> FirstNumber(param_value)]
      [] OTHER               -> EmptyDict

get_next_step(response) ==
    IF response = NoDict THEN NoDict
    ELSE IF "action" \in DOMAIN response /\ "param" \in DOMAIN response
    THEN LET action == action_map(response.action)
             param_value == Strip(response.param)
             dom_value == IF "dom" \in DOMAIN response
                          THEN StripCommentary(Strip(response.dom))
                          ELSE "N/A"
         IN IF action = None THEN NoDict
            ELSE [action |-> action, params |-> params_dict(action, param_value),
                  dom |-> dom_value]
    ELSE NoDict

\* The steps the parser can return.
ParserSteps == {get_next_step(response) : response \in LlmResponses} \ {NoDict}

----------------------------------------------------------------------------
(* CommandExecutor._execute_step                                            *)

\* One controller call: the method, the click tier it serves (0: none) and
\* whether it gave what the caller wanted.
Call(op, tier, ok) == [op |-> op, tier |-> tier, ok |-> ok]

\* time.sleep(seconds) of a wait step
Sleep(seconds, ok) == [op |-> "sleep", tier |-> 0, ok |-> ok, seconds |-> seconds]

\* click_by_coordinates(x, y), with the point it was given
ClickAt(tier, x, y, ok) ==
    [op |-> "click_by_coordinates", tier |-> tier, ok |-> ok, x |-> x, y |-> y]

\* get_target_coordinates_ocr(target_text), with what the OCR had to read
OcrLookup(target_text, shot, ok) ==
    [op |-> "get_target_coordinates_ocr", tier |-> 3, ok |-> ok,
     target_text |-> target_text, shot |-> shot]


\* HasDomSelector taking "N/A" for a selector.
HasDomSelector_any_text(dom_selector) == dom_selector # ""

HasDomSelector(dom_selector) == dom_selector # "" /\ Upper(dom_selector) # "N/A"

HasCoords(coords) == Truthy(coords) /\ "x" \in DOMAIN coords /\ "y" \in DOMAIN coords

\* What the browser answers at each call site of one _execute_step(step).
Envs(step) ==
    LET action == Get(step, "action", None) IN
    CASE action = "click" ->
           \* a call site the step cannot reach is given one answer
           LET tier1 == HasDomSelector(Strip(Get(step, "dom", "")))
               tier2 == HasCoords(Get(step, "coords", NoDict))
               tier3 == ~tier2 /\ Strip(Get(Get(step, "params", EmptyDict), "selector", "")) # ""
           IN [dom_click : IF tier1 THEN ClickResponses ELSE {"absent"},
               coords_click : IF tier2 THEN PointResponses ELSE {"nothing"},
               ocr : IF tier3 THEN OcrShots ELSE {Shot(BlankShot, FALSE)},
               ocr_click : IF tier3 THEN PointResponses ELSE {"nothing"},
               text_click : IF tier3 THEN ClickResponses ELSE {"absent"}]
      [] action = "navigate" -> [navigate : NavigateResponses]
      [] action = "search"   -> [search : SearchResponses]
      [] action = "input"    -> [input : InputResponses]
      [] action = "extract"  -> [extract : ExtractResponses]
      [] OTHER               -> {EmptyDict}

\* lines 71-76: 4. the descriptive parameter as a selector
click_tier4(params, env, cs) ==
    LET fallback_selector == Strip(Get(params, "selector", "")) IN
    IF fallback_selector # ""
    THEN LET r == controller_click(env.text_click)
         IN Done(r, Append(cs, Call("click", 4, r.status = Success)))
    ELSE Done(Outcome(Error, {}), cs)

\* click_tier3 giving up when the OCR returned no coordinates.
click_tier3_no_fallback(params, env, cs) ==
    LET target_text == Strip(Get(params, "selector", "")) IN
    IF target_text # ""
    THEN LET ocr_coords == locate(target_text, env.ocr)
             looked == Append(cs, OcrLookup(target_text, env.ocr, Truthy(ocr_coords)))
         IN IF Truthy(ocr_coords)
            THEN LET r == click_by_coordinates(env.ocr_click)
                 IN Done(r, Append(looked, ClickAt(3, ocr_coords["x"], ocr_coords["y"],
                                                   r.status = Success)))
            ELSE Done(Outcome(Error, {}), looked)
    ELSE click_tier4(params, env, cs)

\* lines 60-69: 3. OCR on the descriptive text
click_tier3(params, env, cs) ==
    LET target_text == Strip(Get(params, "selector", "")) IN
    IF target_text # ""
    THEN LET ocr_coords == locate(target_text, env.ocr)
             looked == Append(cs, OcrLookup(target_text, env.ocr, Truthy(ocr_coords)))
         IN IF Truthy(ocr_coords)
            THEN LET r == click_by_coordinates(env.ocr_click)
                 IN Done(r, Append(looked, ClickAt(3, ocr_coords["x"], ocr_coords["y"],
                                                   r.status = Success)))
            ELSE click_tier4(params, env, looked)
    ELSE click_tier4(params, env, cs)

\* lines 55-58: 2. the coordinates the step carries
click_tier2(step, params, env, cs) ==
    LET coords == Get(step, "coords", NoDict) IN
    IF HasCoords(coords)
    THEN LET r == click_by_coordinates(env.coords_click)
         IN Done(r, Append(cs, ClickAt(2, coords["x"], coords["y"], r.status = Success)))
    ELSE click_tier3(params, env, cs)

\* click_tier1 going on to the coordinates although the selector click succeeded.
click_tier1_no_return(step, params, dom_selector, env) ==
    IF HasDomSelector(dom_selector)
    THEN LET r == controller_click(env.dom_click)
             cs == <<Call("click", 1, r.status = Success)>>
         IN click_tier2(step, params, env, cs)
    ELSE click_tier2(step, params, env, <<>>)

\* lines 43-53: 1. the DOM selector
click_tier1(step, params, dom_selector, env) ==
    IF HasDomSelector(dom_selector)
    THEN LET r == controller_click(env.dom_click)
             cs == <<Call("click", 1, r.status = Success)>>
         IN IF r.status = Success THEN Done(r, cs) ELSE click_tier2(step, params, env, cs)
    ELSE click_tier2(step, params, env, <<>>)

\* lines 91-94: int() raises on a text without number, time.sleep raises on
\* a negative number and on one too large for a timestamp
wait(params) ==
    IF params = NoDict THEN Done(Outcome(Error, {}), <<>>)
    ELSE LET given == Get(params, "seconds", Seconds(2)) IN
         IF given = SoonSeconds THEN Done(Outcome(Error, {}), <<>>)
         ELSE IF given = HugeSeconds THEN Done(Outcome(Error, {}), <<Sleep(given, FALSE)>>)
         ELSE IF given.n < 0 THEN Done(Outcome(Error, {}), <<Sleep(given.n, FALSE)>>)
         ELSE Done(Outcome(Success, {}), <<Sleep(given.n, TRUE)>>)

\* lines 39-103: the try block
try_block(step, env) ==
    LET action == Get(step, "action", None)
        params == Get(step, "params", EmptyDict)
        dom_selector == Strip(Get(step, "dom", ""))
    IN
    CASE action = "navigate" ->
           IF "url" \in DOMAIN params
           THEN LET r == controller_navigate(env.navigate)
                IN Done(r, <<Call("navigate", 0, r.status = Success)>>)
           ELSE Done(Outcome(Error, {}), <<>>)
      [] action = "click" -> click_tier1(step, params, dom_selector, env)
      [] action = "search" ->
           IF "query" \in DOMAIN params
           THEN LET r == controller_search(env.search)
                IN Done(r, <<Call("search", 0, r.status = Success)>>)
           ELSE Done(Outcome(Error, {}), <<>>)
      [] action = "input" ->
           IF "text" \in DOMAIN params
           THEN LET r == input_text(env.input)
                IN Done(r, <<Call("input_text", 0, r.status = Success)>>)
           ELSE Done(Outcome(Error, {}), <<>>)
      [] action = "extract" ->
           IF ~HasDomSelector(dom_selector) /\ params = NoDict
           THEN Done(Outcome(Error, {}), <<>>)
           ELSE LET r == controller_extract(env.extract)
                IN Done(r, <<Call("extract", 0, r.status = Success)>>)
      [] action = "wait" -> wait(params)
      [] action = "complete" -> Done(Outcome(Success, {}), <<>>)
      [] OTHER -> Done(Outcome(Error, {}), <<>>)

\* lines 32-37: step.get("dom", "").strip() is evaluated before the try
\* block, and None has no strip
execute_step(step, env) ==
    IF Get(step, "dom", "") = None
    THEN Done(Raise("AttributeError"), <<>>)
    ELSE try_block(step, env)

\* The steps a caller of _execute_step may pass: any action name, with or
\* without coordinates.
StepActions ==
    {"navigate", "search", "click", "input", "extract", "wait", "complete", "scroll"}

StepParams ==
    {EmptyDict, NoDict, [selector |-> ""], [selector |-> "Add to cart"],
     [url |-> Url("https://", "example.com")], [query |-> "cats"],
     [selector |-> "#name", text |-> "Bob"],
     [seconds |-> Seconds(3)], [seconds |-> Seconds(0)], [seconds |-> Seconds(-1)],
     [seconds |-> Seconds(86400)], [seconds |-> HugeSeconds], [seconds |-> SoonSeconds]}

StepDoms == {"N/A", "n/a", "", "#submit", None}

StepCoords == {EmptyDict, [x |-> 100], [x |-> 100, y |-> 200]}

StepInputs ==
    [action : StepActions, params : StepParams, dom : StepDoms]
    \cup [action : StepActions, params : StepParams, dom : StepDoms, coords : StepCoords]

nav_step == [action |-> "navigate", params |-> [url |-> Url("https://", "www.google.com")]]

AllSteps == ParserSteps \cup StepInputs \cup {nav_step}

\* Every way one _execute_step(step) can go, for each step.
OutcomeTable == [step \in AllSteps |-> {execute_step(step, env) : env \in Envs(step)}]

Outcomes(step) == OutcomeTable[step]

----------------------------------------------------------------------------
(* CommandExecutor._attempt_recovery                                        *)

\* One _execute_step call made by a recovery: the step it was given and
\* the outcome it returned.
Exec(step, out) == [step |-> step, result |-> out.result]

Recovered(r, cs, es) == [ret |-> r, calls |-> cs, execs |-> es]

\* What the browser does during one recovery: how the retry of the failed
\* step goes (case 1), how the navigation goes and how the search goes after
\* it (case 2).
\* Only a search is navigated for and only another step is retried at
\* once, so the calls a recovery cannot reach are given one outcome.
RecoveryEnvs(failed_step) ==
    LET any == CHOOSE out \in Outcomes(failed_step) : TRUE IN
    IF failed_step["action"] = "search"
    THEN [retry : {any}, nav : Outcomes(nav_step), again : Outcomes(failed_step)]
    ELSE [retry : Outcomes(failed_step), nav : Outcomes(nav_step), again : {any}]

\* recovery_case2 without the test for the first step.
recovery_case2_any_step(failed_step, error_msg, step_index, env, cs, es) ==
    LET action == failed_step["action"] IN
    IF action = "search" /\ Contains(error_msg, SearchBox)
    THEN LET nav_done == Append(es, Exec(nav_step, env.nav))
             nav_calls == cs \o env.nav.calls
         IN IF env.nav.result.status = Success
            THEN Recovered(env.again.result, nav_calls \o env.again.calls,
                           Append(nav_done, Exec(failed_step, env.again)))
            ELSE Recovered(NoDict, nav_calls, nav_done)
    ELSE Recovered(NoDict, cs, es)

\* lines 119-128: Case 2, then "No recovery possible"
recovery_case2(failed_step, error_msg, step_index, env, cs, es) ==
    LET action == failed_step["action"] IN
    IF action = "search" /\ Contains(error_msg, SearchBox) /\ step_index = 0
    THEN LET nav_done == Append(es, Exec(nav_step, env.nav))
             nav_calls == cs \o env.nav.calls
         IN IF env.nav.result.status = Success
            THEN Recovered(env.again.result, nav_calls \o env.again.calls,
                           Append(nav_done, Exec(failed_step, env.again)))
            ELSE Recovered(NoDict, nav_calls, nav_done)
    ELSE Recovered(NoDict, cs, es)

\* attempt_recovery retrying a second time when the first retry fails.
attempt_recovery_twice(failed_step, error_result, step_index, env) ==
    LET action == failed_step["action"]
        error_msg == Get(error_result, "message", {})
    IN
    IF Contains(error_msg, NotFound) /\ action \in {"click", "input", "extract"}
    THEN LET cs == <<Call("sleep", 0, TRUE)>> \o env.retry.calls
             es == <<Exec(failed_step, env.retry)>>
         IN IF env.retry.result.status = Success
            THEN Recovered(env.retry.result, cs, es)
            ELSE Recovered(IF env.again.result.status = Success
                           THEN env.again.result ELSE NoDict,
                           cs \o env.again.calls,
                           Append(es, Exec(failed_step, env.again)))
    ELSE recovery_case2(failed_step, error_msg, step_index, env, <<>>, <<>>)

\* attempt_recovery retrying at once, without the wait.
attempt_recovery_no_wait(failed_step, error_result, step_index, env) ==
    LET action == failed_step["action"]
        error_msg == Get(error_result, "message", {})
    IN
    IF Contains(error_msg, NotFound) /\ action \in {"click", "input", "extract"}
    THEN LET cs == env.retry.calls
             es == <<Exec(failed_step, env.retry)>>
         IN IF env.retry.result.status = Success
            THEN Recovered(env.retry.result, cs, es)
            ELSE recovery_case2(failed_step, error_msg, step_index, env, cs, es)
    ELSE recovery_case2(failed_step, error_msg, step_index, env, <<>>, <<>>)

\* lines 105-128
attempt_recovery(failed_step, error_result, step_index, env) ==
    LET action == failed_step["action"]
        error_msg == Get(error_result, "message", {})
    IN
    IF Contains(error_msg, NotFound) /\ action \in {"click", "input", "extract"}
    THEN LET cs == <<Call("sleep", 0, TRUE)>> \o env.retry.calls
             es == <<Exec(failed_step, env.retry)>>
         IN IF env.retry.result.status = Success
            THEN Recovered(env.retry.result, cs, es)
            ELSE recovery_case2(failed_step, error_msg, step_index, env, cs, es)
    ELSE recovery_case2(failed_step, error_msg, step_index, env, <<>>, <<>>)

\* Every way one _attempt_recovery call can go.
Recoveries(failed_step, error_result, step_index) ==
    {attempt_recovery(failed_step, error_result, step_index, env) :
        env \in RecoveryEnvs(failed_step)}

----------------------------------------------------------------------------
(* CommandExecutor.execute_command_iteratively                              *)

max_steps == 15
max_failures == 3

\* The iterations of a run in which a step may end in error.
FlakyStarts == {0, max_steps - FlakySteps}

Flaky == flaky_from <= i /\ i < flaky_from + FlakySteps

\* connect() of the controller: the outcome dict it returns
ConnectResults == {Outcome(Success, {}), Outcome(Error, {})}

\* lines 199-205
overall_status(rs) ==
    IF (\E k \in 1..Len(rs) : Get(rs[k], "action", None) = "complete")
       \/ (\A k \in 1..Len(rs) : rs[k]["status"] = Success)
    THEN Success ELSE Error

\* final_result counting the steps before the last one only.
final_result_miscount(rs) ==
    [status |-> overall_status(rs), steps_completed |-> Len(rs) - 1,
     total_steps |-> Len(rs), results |-> rs]

final_result(rs) ==
    [status |-> overall_status(rs), steps_completed |-> Len(rs),
     total_steps |-> Len(rs), results |-> rs]

\* lines 206-209
exception_result == [status |-> Error, message |-> {}, results |-> <<>>]

\* the outcome appended for a complete action (lines 165-166)
complete_outcome(step) ==
    Outcome(Success, Get(Get(step, "params", EmptyDict), "message", {TaskCompleted}))

Init ==
    /\ pc = "idle"
    /\ connected = FALSE
    /\ flaky_from = 0
    /\ i = 0
    /\ results = <<>>
    /\ consecutive_failures = 0
    /\ llm_response = NoDict
    /\ next_step = NoDict
    /\ result = NoDict
    /\ calls = <<>>
    /\ recovery = NoDict
    /\ recoveries = 0
    /\ snapshots = 0
    /\ oracle_calls = 0
    /\ executed = 0
    /\ ret = NoDict
    /\ fn_args = NoDict
    /\ fn_ret = NoDict
    /\ extracts = <<>>
    /\ dom_context = NoDict
    /\ current_url = None
    /\ sessions = 0
    /\ called = None

\* a call that does not enter the loop
NoRun ==
    /\ flaky_from' = 0
    /\ i' = 0
    /\ results' = <<>>
    /\ consecutive_failures' = 0
    /\ llm_response' = NoDict
    /\ next_step' = NoDict
    /\ result' = NoDict
    /\ calls' = <<>>
    /\ recovery' = NoDict
    /\ recoveries' = 0
    /\ snapshots' = 0
    /\ oracle_calls' = 0
    /\ executed' = 0
    /\ extracts' = <<>>
    /\ dom_context' = NoDict
    /\ current_url' = None

\* lines 19-20: controller.connect() answered r; a session was started when
\* it succeeded (controller lines 24-28)
controller_connected(r) ==
    /\ connected' = (r["status"] = Success)
    /\ sessions' = IF r["status"] = Success THEN sessions + 1 ELSE sessions

\* CommandExecutor.connect (lines 16-22)
Connect ==
    /\ pc \in {"idle", "done"}
    /\ UNCHANGED <<fn_args, fn_ret>>
    /\ called' = "connect"
    /\ IF ~connected
       THEN \E r \in ConnectResults :
               /\ controller_connected(r)
               /\ ret' = r
       ELSE /\ ret' = Outcome(Success, {})
            /\ UNCHANGED <<connected, sessions>>
    /\ pc' = "done"
    /\ NoRun

\* lines 140-145: the loop starts
EnterLoop ==
    /\ pc' = "observe"
    /\ flaky_from' \in FlakyStarts
    /\ i' = 0
    /\ results' = <<>>
    /\ consecutive_failures' = 0
    /\ llm_response' = NoDict
    /\ next_step' = NoDict
    /\ result' = NoDict
    /\ calls' = <<>>
    /\ recovery' = NoDict
    /\ recoveries' = 0
    /\ snapshots' = 0
    /\ oracle_calls' = 0
    /\ executed' = 0
    /\ extracts' = <<>>
    /\ dom_context' = NoDict
    /\ current_url' = None
    /\ ret' = NoDict

\* StartCommand going into the loop whatever connect returned.
StartCommand_ignoring_failure ==
    /\ pc \in {"idle", "done"}
    /\ UNCHANGED <<fn_args, fn_ret>>
    /\ called' = "execute_command_iteratively"
    /\ IF ~connected
       THEN \E r \in ConnectResults :
               /\ controller_connected(r)
               /\ EnterLoop
       ELSE /\ UNCHANGED <<connected, sessions>>
            /\ EnterLoop

\* lines 130-145: a command arrives; connect if needed
StartCommand ==
    /\ pc \in {"idle", "done"}
    /\ UNCHANGED <<fn_args, fn_ret>>
    /\ called' = "execute_command_iteratively"
    /\ IF ~connected
       THEN \E r \in ConnectResults :
               /\ controller_connected(r)
               /\ IF r["status"] # Success
                  THEN /\ ret' = r
                       /\ pc' = "done"
                       /\ NoRun
                  ELSE EnterLoop
       ELSE /\ UNCHANGED <<connected, sessions>>
            /\ EnterLoop

\* lines 199-205: leave the loop and return
Return(rs) ==
    /\ ret' = final_result(rs)
    /\ pc' = "done"
    /\ UNCHANGED i

\* Continue with the loop bound off by one (`i + 1 <= max_steps`).
Continue_one_more(rs) ==
    IF i + 1 <= max_steps
    THEN /\ i' = i + 1
         /\ pc' = "observe"
         /\ UNCHANGED ret
    ELSE Return(rs)

\* Continue going to the oracle with the snapshot of the iteration before.
Continue_without_snapshot(rs) ==
    IF i + 1 < max_steps
    THEN /\ i' = i + 1
         /\ pc' = "decide"
         /\ UNCHANGED ret
    ELSE Return(rs)

\* the end of the loop body: next iteration, or the loop is exhausted
Continue(rs) ==
    IF i + 1 < max_steps
    THEN /\ i' = i + 1
         /\ pc' = "observe"
         /\ UNCHANGED ret
    ELSE Return(rs)

\* Observe that may also start while the recovery of the failed step is
\* still pending.
Observe_while_recovering ==
    /\ pc \in {"observe", "recover"}
    /\ UNCHANGED <<fn_args, fn_ret, extracts, sessions, called>>
    /\ snapshots' = snapshots + 1
    /\ llm_response' = NoDict
    /\ next_step' = NoDict
    /\ result' = NoDict
    /\ calls' = <<>>
    /\ recovery' = NoDict
    /\ recoveries' = 0
    /\ pc' = "decide"
    /\ dom_context' = NoDict
    /\ current_url' = None
    /\ UNCHANGED <<connected, flaky_from, i, results, consecutive_failures,
                   oracle_calls, executed, ret>>

\* the page the loop looks at
LoopPage == <<PageElement("input", TRUE)>>

\* line 147: get_dom_context() with the default limit; the script may raise
SnapshotEnvs ==
    {[page |-> LoopPage, max_elements |-> default_max_elements, raises |-> r] :
     r \in BOOLEAN}

take_snapshot(env) == [elements |-> get_dom_context(env), raised |-> env.raises]

\* after_snapshot with the failure of the snapshot script leaving the loop
\* as a failure of get_url does.
after_snapshot_propagating(env, url_raises) ==
    /\ current_url' = IF url_raises THEN None ELSE "page"
    /\ IF env.raises \/ url_raises
       THEN /\ ret' = exception_result
            /\ pc' = "done"
       ELSE /\ pc' = "decide"
            /\ UNCHANGED ret

\* lines 147-153: the snapshot is whatever get_dom_context returned; get_url
\* for the log raises into the handler of line 206
after_snapshot(env, url_raises) ==
    /\ current_url' = IF url_raises THEN None ELSE "page"
    /\ IF url_raises
       THEN /\ ret' = exception_result
            /\ pc' = "done"
       ELSE /\ pc' = "decide"
            /\ UNCHANGED ret

\* lines 146-153: snapshot of the page, then the current URL for the log
Observe ==
    /\ pc = "observe"
    /\ UNCHANGED <<fn_args, fn_ret, extracts, sessions, called>>
    /\ snapshots' = snapshots + 1
    /\ llm_response' = NoDict
    /\ next_step' = NoDict
    /\ result' = NoDict
    /\ calls' = <<>>
    /\ recovery' = NoDict
    /\ recoveries' = 0
    /\ \E env \in SnapshotEnvs, url_raises \in BOOLEAN :
          /\ env.raises => Flaky
          /\ dom_context' = take_snapshot(env)
          /\ after_snapshot(env, url_raises)
    /\ UNCHANGED <<connected, flaky_from, i, results, consecutive_failures,
                   oracle_calls, executed>>

\* decide_step without the test for no step: the loop goes on to execute.
decide_step_no_break(step) ==
    IF Get(step, "action", None) = "complete"
    THEN /\ results' = Append(results, complete_outcome(step))
         /\ Return(results')
    ELSE /\ pc' = "execute"
         /\ UNCHANGED <<results, ret, i>>

\* lines 159-167: stop on no step and on complete, else go on to execute
decide_step(step) ==
    IF ~Truthy(step)
    THEN /\ Return(results)
         /\ UNCHANGED results
    ELSE IF Get(step, "action", None) = "complete"
    THEN /\ results' = Append(results, complete_outcome(step))
         /\ Return(results')
    ELSE /\ pc' = "execute"
         /\ UNCHANGED <<results, ret, i>>

\* a step that can only fail is proposed in the flaky stretch alone
Servable(step) ==
    IF ~Truthy(step) \/ Flaky THEN TRUE
    ELSE \E out \in Outcomes(step) : out.result.status = Success

\* lines 155-167: ask the parser
Decide ==
    /\ pc = "decide"
    /\ UNCHANGED <<fn_args, fn_ret, extracts, dom_context, current_url,
                   sessions, called>>
    /\ \E response_text \in LlmResponses :
          LET step == get_next_step(response_text) IN
          /\ Servable(step)
          /\ llm_response' = response_text
          /\ next_step' = step
          /\ oracle_calls' = oracle_calls + 1
          /\ decide_step(step)
    /\ UNCHANGED <<connected, flaky_from, consecutive_failures, result, calls,
                   recovery, recoveries, snapshots, executed>>

\* lines 172-197 without the recovery: record the outcome and count failures
handle_result(out) ==
    IF out.result["status"] = Exception
    THEN /\ ret' = exception_result
         /\ pc' = "done"
         /\ UNCHANGED <<i, results, consecutive_failures>>
    ELSE
    /\ results' = Append(results, out.result)
    /\ IF out.result["status"] = Success
       THEN /\ consecutive_failures' = 0
            /\ Continue(results')
       ELSE /\ consecutive_failures' = consecutive_failures + 1
            /\ IF consecutive_failures' < max_failures
               THEN /\ pc' = "recover"
                    /\ UNCHANGED <<i, ret>>
               ELSE Return(results')

\* lines 169-197: execute the step
Execute ==
    /\ pc = "execute"
    /\ UNCHANGED <<fn_args, fn_ret, extracts, dom_context, current_url,
                   sessions, called>>
    /\ \E out \in Outcomes(next_step) :
          /\ out.result.status = Error => Flaky
          /\ result' = out.result
          /\ calls' = out.calls
          /\ executed' = executed + 1
          /\ handle_result(out)
    /\ UNCHANGED <<connected, flaky_from, llm_response, next_step, recovery, recoveries, snapshots,
                   oracle_calls>>

\* handle_recovery appending the outcome of the recovery to the transcript.
handle_recovery_append(recovered) ==
    /\ IF Truthy(recovered)
       THEN /\ results' = Append(results, recovered)
            /\ consecutive_failures' = 0
       ELSE UNCHANGED <<results, consecutive_failures>>
    /\ Continue(results')

\* lines 188-194: what the loop does with the value of _attempt_recovery
handle_recovery(recovered) ==
    /\ IF Truthy(recovered)
       THEN /\ results' = [results EXCEPT ![Len(results)] = recovered]
            /\ consecutive_failures' = 0
       ELSE UNCHANGED <<results, consecutive_failures>>
    /\ Continue(results')

\* One _attempt_recovery call: its arguments and what it did.
Invocation(failed_step, error_result, step_index, rec) ==
    [failed_step |-> failed_step, error_result |-> error_result,
     step_index |-> step_index, ret |-> rec.ret, calls |-> rec.calls,
     execs |-> rec.execs]

\* lines 186-194: the recovery attempt
Recover ==
    /\ pc = "recover"
    /\ UNCHANGED <<fn_args, fn_ret, extracts, dom_context, current_url,
                   sessions, called>>
    /\ \E rec \in Recoveries(next_step, result, i) :
          /\ recovery' = Invocation(next_step, result, i, rec)
          /\ recoveries' = recoveries + 1
          /\ handle_recovery(rec.ret)
    /\ UNCHANGED <<connected, flaky_from, llm_response, next_step, result, calls, snapshots,
                   oracle_calls, executed>>

RunStep == Observe \/ Decide \/ Execute \/ Recover

Next ==
    \/ Connect
    \/ StartCommand
    \/ Observe
    \/ Decide
    \/ Execute
    \/ Recover

Spec == Init /\ [][Next]_vars

----------------------------------------------------------------------------
(* main.py: the HTTP server thread next to the command loop.  The /extract  *)
(* handler works on the controller made at module level, the command loop   *)
(* on the controller of the CommandExecutor.                                *)

\* the Marionette session of a controller that connected
Session == "session"

\* executor.controller.client
executor_client == IF connected THEN Session ELSE None

\* The handler working on the controller of the executor.
api_controller_client_shared == executor_client

\* main.py line 12: a controller of its own, on which connect is never
\* called, so that its client stays None (controller line 18)
api_controller_client == None

DriverCall(op, client, ok) == [op |-> op, client |-> client, ok |-> ok]

\* controller lines 326-356: without a client the attribute lookup raises
\* and the handler of line 354 returns the empty list
get_full_dom_context(client, script_raises) ==
    IF client = None
    THEN Done(<<>>, <<>>)
    ELSE Done(IF script_raises THEN <<>> ELSE <<"element">>,
              <<DriverCall("execute_script", client, ~script_raises)>>)

\* main.py lines 15-37
extract_dom_context(client, script_raises, url_raises) ==
    LET dom == get_full_dom_context(client, script_raises) IN
    IF client = None
    THEN [status |-> Success, url |-> "Unknown", dom_context |-> dom.result,
          inserted |-> TRUE, calls |-> dom.calls]
    ELSE IF url_raises
    THEN [status |-> Error, url |-> None, dom_context |-> None,
          inserted |-> FALSE,
          calls |-> dom.calls \o <<DriverCall("get_url", client, FALSE)>>]
    ELSE [status |-> Success, url |-> "page", dom_context |-> dom.result,
          inserted |-> TRUE,
          calls |-> dom.calls \o <<DriverCall("get_url", client, TRUE)>>]

\* what the driver may do with the calls of one request
HandlerEnvs(client) ==
    IF client = None THEN {<<FALSE, FALSE>>} ELSE BOOLEAN \X BOOLEAN

\* one GET /extract, served by the server thread at any point of the loop
ExtractRequest ==
    /\ Len(extracts) < MaxRequests
    /\ \E env \in HandlerEnvs(api_controller_client) :
          extracts' = Append(extracts,
                             extract_dom_context(api_controller_client, env[1], env[2]))
    /\ UNCHANGED <<pc, connected, flaky_from, i, results, consecutive_failures,
                   llm_response, next_step, result, calls, recovery, recoveries,
                   snapshots, oracle_calls, executed, ret, fn_args, fn_ret,
                   dom_context, current_url,
                   sessions, called>>

ServerNext ==
    \/ Connect
    \/ StartCommand
    \/ Observe
    \/ Decide
    \/ Execute
    \/ Recover
    \/ ExtractRequest

ServerSpec == Init /\ [][ServerNext]_vars

----------------------------------------------------------------------------
(* _execute_step on its own: a caller passes any step of StepInputs.        *)

StepInit ==
    /\ pc = "call"
    /\ llm_response = NoDict
    /\ next_step \in StepInputs
    /\ connected = TRUE
    /\ flaky_from = 0
    /\ i = 0
    /\ results = <<>>
    /\ consecutive_failures = 0
    /\ result = NoDict
    /\ calls = <<>>
    /\ recovery = NoDict
    /\ recoveries = 0
    /\ snapshots = 0
    /\ oracle_calls = 0
    /\ executed = 0
    /\ ret = NoDict
    /\ fn_args = NoDict
    /\ fn_ret = NoDict
    /\ extracts = <<>>
    /\ dom_context = NoDict
    /\ current_url = None
    /\ sessions = 1
    /\ called = None

ExecuteStepCall ==
    /\ pc = "call"
    /\ UNCHANGED <<fn_args, fn_ret, extracts, dom_context, current_url,
                   sessions, called>>
    /\ \E out \in Outcomes(next_step) :
          /\ result' = out.result
          /\ calls' = out.calls
    /\ pc' = "returned"
    /\ UNCHANGED <<connected, flaky_from, i, results, consecutive_failures, llm_response,
                   next_step,
                   recovery, recoveries, snapshots, oracle_calls, executed, ret>>

StepNext == ExecuteStepCall

StepSpec == StepInit /\ [][StepNext]_vars

----------------------------------------------------------------------------
(* get_target_coordinates_ocr on its own: any target text and threshold, on   *)
(* any screenshot of at most MaxBoxes detections.                             *)

OcrTexts == {<<"A", "d", "d">>, <<" ", "C", "A", "R", "T", " ">>}
OcrConfs == {ConfNumber(60), ConfNumber(75), ConfNumber(90), ConfJunk}
OcrFrames == {<<100, 200, 50, 20>>, <<10, 20, 5, 7>>}

OcrBoxes ==
    {Box(text, conf, f[1], f[2], f[3], f[4]) :
        text \in OcrTexts, conf \in OcrConfs, f \in OcrFrames}

OcrData == UNION {[1..n -> OcrBoxes] : n \in 0..MaxBoxes}

\* the target texts a caller passes are stripped (line 61)
OcrTargets == {<<>>, <<"a", "d", "d">>, <<"C", "a", "r", "t">>}

OcrThresholds == {60, 75}

OcrArgs ==
    [target_text : OcrTargets, confidence_threshold : OcrThresholds,
     data : OcrData, raises : BOOLEAN]

Idle ==
    /\ connected = FALSE
    /\ flaky_from = 0
    /\ i = 0
    /\ results = <<>>
    /\ consecutive_failures = 0
    /\ llm_response = NoDict
    /\ next_step = NoDict
    /\ result = NoDict
    /\ calls = <<>>
    /\ recovery = NoDict
    /\ recoveries = 0
    /\ snapshots = 0
    /\ oracle_calls = 0
    /\ executed = 0
    /\ ret = NoDict
    /\ extracts = <<>>
    /\ dom_context = NoDict
    /\ current_url = None
    /\ sessions = 0
    /\ called = None

OcrInit ==
    /\ pc = "ocr_call"
    /\ fn_args \in OcrArgs
    /\ fn_ret = NoDict
    /\ Idle

OcrCall ==
    /\ pc = "ocr_call"
    /\ fn_ret' = get_target_coordinates_ocr(fn_args)
    /\ pc' = "ocr_returned"
    /\ UNCHANGED <<connected, flaky_from, i, results, consecutive_failures, llm_response,
                   next_step,
                   result, calls, recovery, recoveries, snapshots, oracle_calls,
                   executed, ret, fn_args, extracts, dom_context,
                   current_url,
                   sessions, called>>

OcrNext == OcrCall

OcrSpec == OcrInit /\ [][OcrNext]_vars

----------------------------------------------------------------------------
(* get_dom_context on its own: any page of at most MaxPage matching         *)
(* elements, any max_elements.                                              *)

PageTags == {"input", "button", "a", "select"}

PageElements == {PageElement(tag, shown) : tag \in PageTags, shown \in BOOLEAN}

Pages == UNION {[1..n -> PageElements] : n \in 0..MaxPage}

MaxElementsValues == {0, 1, 2, default_max_elements}

DomArgs == [page : Pages, max_elements : MaxElementsValues, raises : BOOLEAN]

DomInit ==
    /\ pc = "dom_call"
    /\ fn_args \in DomArgs
    /\ fn_ret = NoDict
    /\ Idle

DomCall ==
    /\ pc = "dom_call"
    /\ fn_ret' = get_dom_context(fn_args)
    /\ pc' = "dom_returned"
    /\ UNCHANGED <<connected, flaky_from, i, results, consecutive_failures, llm_response,
                   next_step, result, calls, recovery, recoveries, snapshots,
                   oracle_calls, executed, ret, fn_args, extracts, dom_context,
                   current_url,
                   sessions, called>>

DomNext == DomCall

DomSpec == DomInit /\ [][DomNext]_vars

----------------------------------------------------------------------------
(* search on its own, on any page.                                          *)

NoButtons == [k \in 1..Len(button_selectors) |-> "none"]

NoMatches == [k \in 1..Len(search_selectors) |-> Matches(<<>>)]

\* a page whose first input selector matches one text input
PlainPage == [NoMatches EXCEPT ![1] = Matches(<<Element("text")>>)]

ElementKinds == {Element("text"), Element("submit"), Element("button"), StaleElement}

\* what one input selector may answer when it does not match nothing
InputAnswers ==
    {FindRaises}
    \cup {Matches(es) : es \in UNION {[1..n -> ElementKinds] : n \in 1..MaxMatches}}

\* what a second input selector of the page answers
OtherAnswers ==
    {FindRaises, Matches(<<Element("submit")>>), Matches(<<Element("text")>>),
     Matches(<<StaleElement>>)}

\* the pages on which at most two input selectors answer
SearchPages ==
    {[k \in 1..Len(search_selectors) |->
         IF k = a THEN x ELSE IF k = b THEN y ELSE Matches(<<>>)] :
     a \in 1..Len(search_selectors), b \in 1..Len(search_selectors),
     x \in InputAnswers, y \in OtherAnswers}

SearchArgs ==
    [url_raises : {TRUE}, page : {PlainPage}, typing : {"typed"},
     enter_raises : {FALSE}, buttons : {NoButtons}]
    \cup [url_raises : {FALSE}, page : {NoMatches} \cup SearchPages, typing : {"typed"},
          enter_raises : {FALSE}, buttons : {NoButtons}]
    \cup [url_raises : {FALSE}, page : {PlainPage}, typing : {"js_typed", "failed"},
          enter_raises : BOOLEAN, buttons : {NoButtons}]
    \cup [url_raises : {FALSE}, page : {PlainPage}, typing : {"typed"},
          enter_raises : BOOLEAN, buttons : [1..Len(button_selectors) -> ButtonAnswers]]

SearchInit ==
    /\ pc = "search_call"
    /\ fn_args \in SearchArgs
    /\ fn_ret = NoDict
    /\ Idle

SearchCall ==
    /\ pc = "search_call"
    /\ fn_ret' = search(fn_args)
    /\ pc' = "search_returned"
    /\ UNCHANGED <<connected, flaky_from, i, results, consecutive_failures, llm_response,
                   next_step, result, calls, recovery, recoveries, snapshots,
                   oracle_calls, executed, ret, fn_args, extracts, dom_context,
                   current_url,
                   sessions, called>>

SearchNext == SearchCall

SearchSpec == SearchInit /\ [][SearchNext]_vars

----------------------------------------------------------------------------
(* Properties of the command loop                                           *)

Running == pc \in {"observe", "decide", "execute", "recover"}

Returned == pc = "done" /\ "steps_completed" \in DOMAIN ret

Action(step) == Get(step, "action", None)

\* Progress of a run: every step of the loop raises it, and it never passes 60.
Rank ==
    CASE pc = "observe" -> 4 * i
      [] pc = "decide"  -> 4 * i + 1
      [] pc = "execute" -> 4 * i + 2
      [] pc = "recover" -> 4 * i + 3
      [] OTHER          -> 60

\* C1: a run terminates after at most 15 iterations: every step of the loop
\* raises a rank that is bounded by 60, so no run goes on for ever, and a run
\* takes at most 15 snapshots, consults the oracle at most 15 times, executes
\* at most 15 steps and records at most 15 outcomes.
C1_TerminatesWithin15 ==
    [][/\ Running => (Rank' > Rank /\ Rank' <= 60)
       /\ i' < 15
       /\ snapshots' <= 15
       /\ oracle_calls' <= 15
       /\ executed' <= 15
       /\ Len(results') <= 15]_vars

\* the fifteenth iteration has executed its step and the loop is exhausted
C1_Witness ==
    /\ Returned
    /\ snapshots = 15 /\ oracle_calls = 15 /\ executed = 15
    /\ Len(ret.results) = 15

IsError(r) == r["status"] = Error

LastThreeFailed(rs) ==
    Len(rs) >= 3 /\ \A k \in (Len(rs) - 2)..Len(rs) : IsError(rs[k])

\* C2: when three consecutive executed steps have each ended in an error
\* outcome the run has stopped: the loop takes no further snapshot, oracle
\* call or action.
C2_ThreeFailuresAbort ==
    pc \in {"observe", "decide", "execute"} => ~LastThreeFailed(results)

CompleteIssued == Action(next_step) = "complete"

AllSucceeded(rs) == \A k \in 1..Len(rs) : rs[k]["status"] = Success

\* C3: the status of a returned run is success if the transcript holds the
\* outcome of a complete action or every outcome succeeded, and error
\* otherwise.
C3_StatusRule ==
    Returned =>
        (ret.status = Success <=> (CompleteIssued \/ AllSucceeded(ret.results)))

\* C4: when the oracle answers complete in iteration i + 1 the run returns in
\* that iteration: nothing is executed for it, one success outcome is
\* appended, no loop step remains enabled, and steps_completed = total_steps
\* = i + 1 = the length of the returned transcript.
C4_CompleteHalts ==
    [][(pc = "decide" /\ Action(next_step') = "complete") =>
          /\ pc' = "done"
          /\ ~(ENABLED RunStep)'
          /\ executed' = executed /\ executed = i
          /\ calls' = <<>> /\ recoveries' = 0
          /\ Len(results') = Len(results) + 1
          /\ SubSeq(results', 1, Len(results)) = results
          /\ results'[Len(results')]["status"] = Success
          /\ ret'.results = results'
          /\ ret'.steps_completed = i + 1
          /\ ret'.total_steps = i + 1
          /\ Len(ret'.results) = i + 1]_vars

\* complete answered in the third iteration, after two executed steps
C4_Witness ==
    /\ Returned /\ CompleteIssued
    /\ i = 2 /\ executed = 2
    /\ ret.steps_completed = 3

OracleSilent == pc # "decide" /\ oracle_calls = i + 1 /\ ~Truthy(next_step)

\* C5: when the oracle returns nothing the run stops in that iteration: no
\* step is executed, no outcome is appended (the transcript holds the
\* outcomes of the earlier iterations alone) and no loop step remains enabled.
C5_NoStepAborts ==
    OracleSilent =>
        /\ pc = "done"
        /\ ~ENABLED RunStep
        /\ executed = i /\ calls = <<>> /\ recoveries = 0
        /\ Len(results) = i
        /\ snapshots = i + 1
        /\ Returned /\ ret.results = results

\* the oracle returned nothing in the second iteration
C5_Witness == OracleSilent /\ i = 1 /\ Len(results) = 1

\* The recovery of this iteration has been attempted.
Recovering == Truthy(recovery)

\* the outcomes of the re-executions of the failed step by the recovery
Retries ==
    SelectSeq(recovery.execs, LAMBDA e : e.step = recovery.failed_step)

LastEntry == results[Len(results)]

\* C6: the counter is reset and the last transcript entry replaced only when
\* the retry of the recovery succeeded; after a retry that ended in error,
\* and after a recovery without retry, the counter still counts the step and
\* the entry is the outcome of the first attempt.
C6_OnlySuccessfulRecoveryResets ==
    Recovering =>
        IF Retries # <<>> /\ Retries[Len(Retries)].result["status"] = Success
        THEN consecutive_failures = 0 /\ LastEntry = Retries[Len(Retries)].result
        ELSE consecutive_failures >= 1 /\ LastEntry = recovery.error_result

\* C7: a failed step has at most one recovery, and a recovery re-executes the
\* failed step at most once, whatever the retry's outcome.
C7_OneRetryPerStep ==
    /\ recoveries <= 1
    /\ Recovering =>
          /\ Len(Retries) <= 1
          /\ Len(recovery.execs) <= 2
          /\ recovery.failed_step = next_step

\* a recovery whose single retry failed
C7_Witness ==
    /\ Recovering /\ recoveries = 1
    /\ Len(Retries) = 1 /\ IsError(Retries[1].result)

NotFoundFailure(step, outcome) ==
    /\ Action(step) \in {"click", "input", "extract"}
    /\ Contains(outcome.message, NotFound)

NoSearchBoxAtFirstStep(step, outcome, step_index) ==
    /\ Action(step) = "search"
    /\ Contains(outcome.message, SearchBox)
    /\ step_index = 0

\* C9: when neither rule applies the recovery returns None and makes no
\* controller call and no re-execution; a search that fails after the first
\* step is never retried.
C9_NoRuleNoAction ==
    Recovering =>
        /\ (/\ ~NotFoundFailure(recovery.failed_step, recovery.error_result)
            /\ ~NoSearchBoxAtFirstStep(recovery.failed_step, recovery.error_result,
                                       recovery.step_index))
           => (recovery.ret = NoDict /\ recovery.calls = <<>> /\ recovery.execs = <<>>)
        /\ (Action(recovery.failed_step) = "search" /\ recovery.step_index > 0)
           => (recovery.ret = NoDict /\ recovery.calls = <<>> /\ recovery.execs = <<>>)

\* a search that found no search box in the second iteration
C9_Witness ==
    /\ Recovering
    /\ Action(recovery.failed_step) = "search"
    /\ Contains(recovery.error_result.message, SearchBox)
    /\ recovery.step_index = 1
    /\ recovery.execs = <<>>

\* a command run that entered the loop has returned
RunReturned == pc = "done" /\ snapshots > 0

\* C15: the value a run returns reports an overall status, the number of
\* steps completed and the transcript with every outcome recorded so far,
\* also when a driver call failed in the middle of the loop.
C15_ResultKeepsTranscript ==
    RunReturned =>
        /\ {"status", "steps_completed", "results"} \subseteq DOMAIN ret
        /\ ret.results = results
        /\ ret.steps_completed = Len(results)

\* the run ends in this step before its fifteenth iteration
EndsEarly == Running /\ pc' = "done" /\ i < max_steps - 1

\* C16: a run ends before its fifteenth iteration only when the oracle
\* answered complete, when the oracle returned no step, or when the
\* consecutive-failure budget is reached; a step that fails otherwise leaves
\* one error outcome and the loop goes on.
C16_OnlyThreeWaysOut ==
    [][/\ EndsEarly =>
            \/ pc = "decide" /\ Action(next_step') = "complete"
            \/ pc = "decide" /\ ~Truthy(next_step')
            \/ pc = "execute" /\ consecutive_failures' >= max_failures
       /\ (pc = "execute" /\ consecutive_failures' \in 1..(max_failures - 1)) =>
            /\ pc' = "recover"
            /\ Len(results') = Len(results) + 1
       /\ (pc = "recover" /\ i < max_steps - 1) =>
            /\ pc' = "observe"
            /\ Len(results') = Len(results)]_vars

\* the oracle answered complete and gave a completion message
CompleteWithMessage ==
    /\ Returned /\ CompleteIssued
    /\ Truthy(llm_response) /\ Strip(llm_response.param) # ""

\* C18: the outcome appended for a complete step has status success and
\* carries the completion message of the oracle's answer (its PARAM text).
C18_CompleteCarriesMessage ==
    CompleteWithMessage =>
        /\ LastEntry["status"] = Success
        /\ Contains(LastEntry["message"], Strip(llm_response.param))

----------------------------------------------------------------------------
(* Properties of _execute_step                                              *)

ClickReturned == pc = "returned" /\ Action(next_step) = "click"

Tiers == 1..4

Attempted(t) == \E k \in 1..Len(calls) : calls[k].tier = t

Failed(t) == \E k \in 1..Len(calls) : calls[k].tier = t /\ ~calls[k].ok

Succeeded(t) == Attempted(t) /\ ~Failed(t)

DescriptiveText(step) == Get(Get(step, "params", EmptyDict), "selector", "")

\* what a tier needs of the step: a DOM hint other than N/A, both
\* coordinates, a descriptive text
Applicable(t, step) ==
    CASE t = 1 -> Get(step, "dom", "") \notin {"", "N/A", "n/a"}
      [] t = 2 -> {"x", "y"} \subseteq DOMAIN Get(step, "coords", EmptyDict)
      [] OTHER -> DescriptiveText(step) # ""

\* C10: a click tries the tiers in the order 1 (DOM hint), 2 (coordinates),
\* 3 (OCR), 4 (descriptive text as selector); a tier is tried only if it
\* applies and every earlier tier failed or did not apply; the first tier
\* that succeeds ends the step with a success outcome and no later tier.
C10_TierOrder ==
    ClickReturned =>
        /\ \A k, l \in 1..Len(calls) : k < l => calls[k].tier <= calls[l].tier
        /\ \A k \in 1..Len(calls) : calls[k].tier \in Tiers
        /\ \A t \in Tiers : Attempted(t) =>
              /\ Applicable(t, next_step)
              /\ \A u \in 1..(t - 1) : Failed(u) \/ ~Applicable(u, next_step)
        /\ \A t \in Tiers : Succeeded(t) =>
              /\ result.status = Success
              /\ \A u \in (t + 1)..4 : ~Attempted(u)
        /\ result.status = Success => \E t \in Tiers : Succeeded(t)

\* the DOM hint failed and the click at the supplied coordinates succeeded
C10_Witness ==
    /\ ClickReturned
    /\ Failed(1) /\ Succeeded(2)
    /\ result.status = Success

\* a click with the DOM hint "N/A", without usable coordinates, with a
\* descriptive text
OpticalOnly(step) ==
    /\ Action(step) = "click"
    /\ Get(step, "dom", "") = "N/A"
    /\ ~Applicable(2, step)
    /\ DescriptiveText(step) # ""

OcrLocated == \E k \in 1..Len(calls) : calls[k].op = "get_target_coordinates_ocr" /\ calls[k].ok

----------------------------------------------------------------------------
(* Properties of get_target_coordinates_ocr                                 *)

OcrReturned == pc = "ocr_returned" /\ ~fn_args.raises

\* the boxes whose confidence exceeds the threshold and whose lowercased text
\* contains the lowercased target
QualifyingIn(data, target_text, confidence_threshold) ==
    {k \in 1..Len(data) :
        /\ int_conf(data[k].conf) > confidence_threshold
        /\ IsSubstring(LowerChars(target_text), LowerChars(data[k].text))}

Qualifying ==
    QualifyingIn(fn_args.data, fn_args.target_text, fn_args.confidence_threshold)

First(S) == CHOOSE k \in S : \A l \in S : k <= l

CentreOf(b) == box_centre(b.left, b.top, b.width, b.height)

OpticalClick(k) ==
    /\ k \in 2..Len(calls)
    /\ calls[k].op = "click_by_coordinates" /\ calls[k].tier = 3
    /\ calls[k - 1].op = "get_target_coordinates_ocr"

\* the box the lookup of call k matched
MatchedBox(k) ==
    LET data == calls[k].shot.data
    IN data[First(QualifyingIn(data, Chars(calls[k].target_text),
                               default_confidence_threshold))]

\* n is the half of m rounded down to an integer
HalfRounded(n, m) == 2 * n <= m /\ m < 2 * n + 2

\* C13: the point the optical tier clicks is the centre of the matched box
\* as integers: x is left + width/2 and y is top + height/2, each rounded
\* (down) to an integer, also for odd widths and heights; a match at box
\* (100, 200, 50, 20) is clicked at (125, 210).
C13_ClicksBoxCentre ==
    ClickReturned =>
        \A k \in 1..Len(calls) :
            (calls[k].op = "click_by_coordinates" /\ calls[k].tier = 3) =>
                /\ OpticalClick(k)
                /\ LET b == MatchedBox(k - 1) IN
                   /\ HalfRounded(calls[k].x - b.left, b.width)
                   /\ HalfRounded(calls[k].y - b.top, b.height)
                   /\ (b.left = 100 /\ b.top = 200 /\ b.width = 50 /\ b.height = 20)
                      => (calls[k].x = 125 /\ calls[k].y = 210)

\* the match is the second box of the screenshot, of width 5 and height 7
C13_Witness ==
    /\ ClickReturned
    /\ OpticalClick(Len(calls))
    /\ MatchedBox(Len(calls) - 1).width = 5 /\ MatchedBox(Len(calls) - 1).height = 7
    /\ calls[Len(calls)].x = 12 /\ calls[Len(calls)].y = 23
    /\ result.status = Success

----------------------------------------------------------------------------
(* Properties of _execute_step: failures                                    *)

StepReturned == pc = "returned"

\* C14: whatever the step dictionary and whatever the driver does,
\* _execute_step returns an outcome with status success or error and a
\* message; no exception leaves it.
C14_NoExceptionEscapes ==
    StepReturned =>
        /\ result["status"] \in {Success, Error}
        /\ "message" \in DOMAIN result

WaitReturned ==
    /\ StepReturned
    /\ Action(next_step) = "wait"
    /\ Get(next_step, "dom", "") # None
    /\ Get(next_step, "params", EmptyDict) # NoDict

\* C17: a wait step ends in a success outcome whatever the seconds parameter
\* is: absent, negative, not a number, very large.
C17_WaitAlwaysSucceeds ==
    WaitReturned => result["status"] = Success

----------------------------------------------------------------------------
(* Properties of get_dom_context                                            *)

DomReturned == pc = "dom_returned" /\ ~fn_args.raises

Kept == {fn_ret[k].index : k \in 1..Len(fn_ret)}

Dropped == {k \in 1..Len(fn_args.page) : fn_args.page[k].shown /\ k \notin Kept}

\* C19: get_dom_context returns at most max_elements elements, also for
\* max_elements = 0; inputs and buttons come before links and links before
\* the rest, in document order inside each bucket; and the cut comes after
\* the sort, so no dropped element is of a lower bucket than a kept one.
C19_BucketsAndLimit ==
    DomReturned =>
        /\ Len(fn_ret) <= fn_args.max_elements
        /\ \A k, l \in 1..Len(fn_ret) : k < l =>
              \/ priority(fn_ret[k].tag) < priority(fn_ret[l].tag)
              \/ /\ priority(fn_ret[k].tag) = priority(fn_ret[l].tag)
                 /\ fn_ret[k].index < fn_ret[l].index
        /\ \A d \in Dropped : \A k \in 1..Len(fn_ret) :
              priority(fn_args.page[d].tag) >= priority(fn_ret[k].tag)

----------------------------------------------------------------------------
(* Properties of search                                                     *)

\* the search reached the submission
Submitted == pc = "search_returned" /\ fn_ret.calls # <<>>

Made(op) == {k \in 1..Len(fn_ret.calls) : fn_ret.calls[k].op = op}

Worked(op) == \E k \in Made(op) : fn_ret.calls[k].ok

\* C20: the submission is a chain: the Enter key first; the button selectors
\* are probed, in order, only after Enter raised, and the first button found
\* is clicked; the scripted form submit is attempted when Enter raised and
\* no button was found and clicked, and never when Enter or a click worked.
C20_SubmitChain ==
    Submitted =>
        /\ Made("send_keys_return") = {1}
        /\ Made("find_elements") # {} => ~fn_ret.calls[1].ok
        /\ \A k, l \in Made("find_elements") :
              k < l => fn_ret.calls[k].selector < fn_ret.calls[l].selector
        /\ \A k \in Made("find_elements") :
              fn_ret.calls[k].ok =>
                  /\ k + 1 \in Made("click")
                  /\ fn_ret.calls[k + 1].selector = fn_ret.calls[k].selector
        /\ \A k \in Made("click") : fn_ret.calls[k].ok => k = Len(fn_ret.calls)
        /\ (~Worked("send_keys_return") /\ ~Worked("click")) => Made("form_submit") # {}
        /\ (Worked("send_keys_return") \/ Worked("click")) => Made("form_submit") = {}

----------------------------------------------------------------------------
(* Properties of the command loop: one step at a time                       *)

Snapshot == snapshots' = snapshots + 1

OracleAsked == oracle_calls' = oracle_calls + 1

StepExecuted == executed' = executed + 1

RecoveryAttempted == recoveries' = recoveries + 1

\* the previous step, if it failed, had its recovery return
PreviousStepSettled ==
    Truthy(result) /\ IsError(result) => recoveries = 1 /\ Recovering

\* C21: at most one proposed action is in flight: a snapshot is taken and
\* the oracle asked only when every step proposed so far was executed and
\* the recovery of a failed one returned; a step is executed only when it is
\* the single step proposed and not yet executed; no command starts while
\* another one runs.
C21_OneInFlight ==
    [][ /\ Snapshot =>
              /\ pc = "observe"
              /\ oracle_calls = i /\ executed = i
              /\ PreviousStepSettled
        /\ OracleAsked =>
              /\ pc = "decide"
              /\ oracle_calls = i /\ executed = i
              /\ ~Truthy(next_step) /\ ~Truthy(result) /\ ~Recovering
        /\ StepExecuted =>
              /\ pc = "execute"
              /\ oracle_calls = i + 1 /\ executed = i
              /\ ~Truthy(result)
        /\ RecoveryAttempted =>
              /\ pc = "recover"
              /\ oracle_calls = i + 1 /\ executed = i + 1
              /\ recoveries = 0
        /\ Running => ~(pc' = "observe" /\ i' = 0) ]_vars

\* the second snapshot of a run, taken after the first step failed and its
\* recovery returned without repairing it
C21_Witness ==
    /\ pc = "decide" /\ snapshots = 2 /\ executed = 1
    /\ Len(results) = 1 /\ IsError(results[1])

----------------------------------------------------------------------------
(* Properties of the server thread                                          *)

\* the requests served so far that issued a driver call on the given client
CallsOn(client) ==
    {k \in 1..Len(extracts) :
        \E c \in 1..Len(extracts[k].calls) : extracts[k].calls[c].client = client}

\* C22: while a command runs, no /extract request served in the server
\* thread issued a driver call on the connection of the executor, at
\* whatever point of the loop the request arrived.
C22_LoopOwnsConnection ==
    Running => CallsOn(executor_client) = {}

\* a request answered while a step proposed by the oracle waits for its
\* execution
C22_Witness ==
    /\ pc = "execute" /\ connected
    /\ extracts # <<>> /\ extracts[1].status = Success

----------------------------------------------------------------------------
(* Properties of the command loop: a failing text locator                   *)

OcrCalls == {k \in 1..Len(calls) : calls[k].op = "get_target_coordinates_ocr"}

\* the click of this iteration asked the OCR, and the screenshot or the OCR
\* raised
OcrRaised == \E k \in OcrCalls : calls[k].shot.raises

\* the call after the OCR lookup is the click on the descriptive text taken
\* as a selector, it is the last call, and its outcome is the step's
SelectorTierFollows(k) ==
    /\ Len(calls) = k + 1
    /\ calls[k + 1].op = "click" /\ calls[k + 1].tier = 4
    /\ calls[k + 1].ok <=> result["status"] = Success

\* the run went on: it is in the next iteration or in the recovery of the
\* step, or it returned its transcript because a limit of the loop was hit
LoopWentOn ==
    \/ pc \in {"observe", "recover"}
    \/ /\ Returned /\ ret.results = results
       /\ i + 1 = max_steps \/ consecutive_failures = max_failures

\* C23: when the screenshot or the OCR raises during a click, the lookup
\* yields no coordinates, the click goes on to the descriptive text as a
\* selector as after an OCR miss, the step ends with a success or error
\* outcome, and the loop continues.
C23_OcrFailureDegrades ==
    \A k \in OcrCalls :
        calls[k].shot.raises =>
            /\ ~calls[k].ok
            /\ SelectorTierFollows(k)
            /\ result["status"] \in {Success, Error}
            /\ LastEntry = IF Recovering /\ Truthy(recovery.ret)
                           THEN recovery.ret ELSE result
            /\ LoopWentOn

\* the OCR raised, the selector tier clicked the element, and the loop is
\* in its next iteration
C23_Witness ==
    /\ OcrRaised /\ pc = "observe" /\ i = 1
    /\ calls[Len(calls)].tier = 4 /\ result["status"] = Success

----------------------------------------------------------------------------
(* Properties of the command loop: recovery of failed steps                 *)

\* the step of this iteration was executed and failed, and the loop is past
\* the point where it handles the failure
FailedStepHandled ==
    Truthy(result) /\ IsError(result) /\ pc \in {"observe", "done"}

\* C24: for every executed step that ended in error, the one that reaches
\* the limit of consecutive failures included, _attempt_recovery was called
\* before the run stopped or moved on.
C24_RecoveryForEveryFailure ==
    FailedStepHandled => recoveries = 1 /\ Recovering

----------------------------------------------------------------------------
(* Properties of _execute_step: the error outcome of a click                *)

ClickFailed == ClickReturned /\ result["status"] = Error

\* C25: a click ends in an error outcome only if every tier that applies to
\* the step was attempted and failed; after coordinates that hit no element
\* the remaining applicable tiers are still attempted.
C25_ErrorAfterEveryTier ==
    ClickFailed =>
        \A t \in Tiers : Applicable(t, next_step) => Attempted(t) /\ Failed(t)

----------------------------------------------------------------------------
(* Properties of search: the outcome and the input                          *)

SearchReturned == pc = "search_returned" /\ ~fn_args.url_raises

SearchSucceeded == SearchReturned /\ fn_ret.result["status"] = Success

QueryEntered == \E k \in 1..Len(fn_ret.typing) : fn_ret.typing[k].ok

\* C26: search returns a success outcome only if the query was entered and
\* the Enter key, a click on a submit button or the scripted form submit
\* completed without raising.
C26_SuccessMeansSubmitted ==
    SearchSucceeded =>
        /\ QueryEntered
        /\ Worked("send_keys_return") \/ Worked("click") \/ Worked("form_submit")

\* the elements selector k matches, as far as their types can be read in
\* match order
Read(k) ==
    LET es == fn_args.page[k].elements IN
    {j \in 1..Len(es) : \A l \in 1..j : ~es[l].stale}

\* the elements of selector k that are neither a submit input nor a button
Inputs(k) ==
    {j \in Read(k) : fn_args.page[k].elements[j].type \notin {"submit", "button"}}

\* the selectors whose probe yields an input
Yielding == {k \in 1..Len(search_selectors) : Inputs(k) # {}}

Least(S) == CHOOSE m \in S : \A n \in S : m <= n

Probed == {fn_ret.probes[k].selector : k \in 1..Len(fn_ret.probes)}

----------------------------------------------------------------------------
(* Properties of the command loop: the transcript                           *)

\* the last entry of the transcript is not what it was
LastEntryChanged ==
    results # <<>> /\ results'[Len(results)] # results[Len(results)]

\* C28: during a run the transcript never gets shorter, an iteration adds
\* at most one entry, no entry but the last is ever modified, and the last
\* is modified only by the recovery of the step it belongs to, which puts
\* its own outcome in its place; what a recovery executes adds no entry.
C28_AppendOnlyTranscript ==
    [][ Running =>
          /\ Len(results') \in {Len(results), Len(results) + 1}
          /\ Len(results') <= i + 1
          /\ \A k \in 1..(Len(results) - 1) : results'[k] = results[k]
          /\ LastEntryChanged =>
                /\ pc = "recover" /\ Len(results) = i + 1
                /\ recovery'.failed_step = next_step
                /\ recovery'.step_index = i
                /\ recovery'.error_result = results[Len(results)]
                /\ results'[Len(results)] = recovery'.ret
          /\ pc = "recover" => Len(results') = Len(results) ]_vars

\* the recovery of the first step navigated to the search engine and retried
\* the search, and the outcome of the retry stands alone in the transcript
C28_Witness ==
    /\ Recovering /\ Len(results) = 1 /\ recovery.step_index = 0
    /\ \E k \in 1..Len(recovery.execs) : recovery.execs[k].step = nav_step
    /\ LastEntry = recovery.ret /\ LastEntry # result

----------------------------------------------------------------------------
(* Properties of the command loop: a run the oracle ended                   *)

\* the run returned because the oracle gave no step
Aborted == OracleSilent /\ Returned

\* C29: a run that ended because the oracle returned no action is not
\* reported with the overall status success; with the first oracle call
\* failing and the transcript empty it is reported as error.
C29_AbortIsNotSuccess ==
    Aborted => ret["status"] = Error

----------------------------------------------------------------------------
(* Properties of the command loop: the order within an iteration            *)

\* where the loop may go from each of its positions
After(at) ==
    CASE at = "observe" -> {"decide", "done"}
      [] at = "decide"  -> {"execute", "done"}
      [] at = "execute" -> {"observe", "recover", "done"}
      [] at = "recover" -> {"observe", "done"}
      [] OTHER          -> {"observe", "done"}

\* C30: every iteration goes observe, decide, execute, (recover): the
\* snapshot of iteration i is taken once, at its start; the oracle is asked
\* only with that snapshot taken; a step is executed only if the oracle
\* proposed it in this iteration; recovery runs only on the error outcome of
\* that execution; and the next iteration starts with a new snapshot.
C30_IterationOrder ==
    [][ /\ pc' # pc => pc' \in After(pc)
        /\ Snapshot => snapshots = i
        /\ OracleAsked => snapshots = i + 1
        /\ StepExecuted =>
              /\ snapshots = i + 1 /\ oracle_calls = i + 1
              /\ Truthy(next_step) /\ next_step = get_next_step(llm_response)
        /\ RecoveryAttempted =>
              /\ executed = i + 1
              /\ IsError(result) /\ LastEntry = result
              /\ recovery'.failed_step = next_step
              /\ recovery'.error_result = result
        /\ (Running /\ i' # i) => i' = i + 1 /\ pc' = "observe" /\ snapshots' = i' ]_vars

\* the second iteration went through all four steps and the third is about
\* to take its snapshot
C30_Witness ==
    /\ pc = "observe" /\ i = 2 /\ Recovering /\ recovery.step_index = 1
    /\ snapshots = 2 /\ oracle_calls = 2 /\ executed = 2

----------------------------------------------------------------------------
(* Properties of the command loop: a failing snapshot                       *)

\* the snapshot script of this iteration raised
SnapshotFailed == dom_context # NoDict /\ dom_context.raised

\* C31: when the snapshot script raises, the snapshot is the empty sequence
\* and nothing propagates: the failure adds no transcript entry and leaves
\* the count of consecutive failures as it was, the iteration goes on to
\* the oracle once the URL was read, and the oracle is asked with the empty
\* snapshot.
C31_SnapshotFailureIsEmpty ==
    [][ /\ (Snapshot /\ dom_context'.raised) =>
              /\ dom_context'.elements = <<>>
              /\ results' = results
              /\ consecutive_failures' = consecutive_failures
              /\ current_url' # None => pc' = "decide"
        /\ (OracleAsked /\ SnapshotFailed) =>
              /\ dom_context.elements = <<>>
              /\ dom_context' = dom_context ]_vars

\* in the second iteration the snapshot script raised and the oracle
\* proposed a step all the same, after a failed first step
C31_Witness ==
    /\ SnapshotFailed /\ pc = "execute" /\ i = 1
    /\ oracle_calls = 2 /\ Truthy(next_step)
    /\ Len(results) = 1 /\ consecutive_failures = 1

----------------------------------------------------------------------------
(* Properties of the executor: one connection                               *)

\* C32: once connect succeeded the connected flag stays true and no call of
\* connect or execute_command_iteratively starts a second driver session;
\* a command run whose connection attempt fails returns the error of that
\* attempt with no snapshot taken, the oracle not asked and no action
\* executed.
C32_SingleConnection ==
    [][ /\ connected => connected' /\ sessions' = sessions
        /\ sessions' \in {sessions, sessions + 1}
        /\ sessions' <= 1
        /\ connected' <=> sessions' = 1
        /\ (called' = "execute_command_iteratively" /\ ~connected') =>
              /\ pc' = "done"
              /\ ret' = Outcome(Error, {})
              /\ snapshots' = 0 /\ oracle_calls' = 0 /\ executed' = 0
              /\ results' = <<>> /\ dom_context' = NoDict ]_vars

\* a command was given without a connection, the attempt failed and the
\* call returned the error
C32_Witness ==
    /\ called = "execute_command_iteratively" /\ ~connected
    /\ pc = "done" /\ ret = Outcome(Error, {})
    /\ sessions = 0 /\ snapshots = 0

====
